---- MODULE Spec2Model ----
(***************************************************************************)
(* Order / discount / payment settlement of the pay application.          *)
(*                                                                         *)
(* Money is counted in the smallest unit of the DECIMAL(10,2) columns      *)
(* (one unit = 0.01), so every stored amount is an integer.  Strings that  *)
(* the code trims or tests for emptiness (discount codes, generated ids)   *)
(* are sequences; the empty string is the empty sequence << >>.  A column  *)
(* that may be NULL (max_usage, min_amount) holds the set {} when NULL     *)
(* and {v} when it holds the value v.  An amount submitted to POST /orders  *)
(* is counted in thousandths, so that the rounding of the DECIMAL(10,2)     *)
(* column on insert is part of the model.  An optional number of a JSON     *)
(* body (maxUsage, minAmount) is a record [type, value]: absent, a number,  *)
(* or a string of digits.                                                   *)
(***************************************************************************)
EXTENDS Integers, Sequences, FiniteSets, TLC

\* ---- bounds of the model -------------------------------------------------
MaxOrders == 1
MaxDiscounts == 1
MaxOverlapDiscounts == 2
MaxRecords == 2
MaxUsageTotal == 2
MaxAmount == 2

\* ---- input alphabets -----------------------------------------------------
Procs == {"p1", "p2"}
Users == {"u1", "u2"}
OrderUsers == {"u1"}
Methods == {"alipay", "wechat"}
Amounts == 1..MaxAmount
\* amounts submitted to POST /orders, in thousandths: whole hundredths
OrderAmounts == {10 * a : a \in Amounts}
\* the ids generateId hands out, and one more that names no order
OrderIds == {<<"order_", n>> : n \in 1..(MaxOrders + 1)}

\* inputs of the sequential specification SpecSeq: well-formed requests and
\* one request for each missing required field
SeqProcs == {"p1"}
RawCodes == {<< >>, <<" ">>, <<"A">>, <<" ", "A">>, <<"B">>}
CreateCodes == {<< >>, <<"A">>, <<" ", "A">>}
Balances == 0..MaxAmount
\* JSON values of the optional limits: absent, the number n, the string "n"
Undefined == [type |-> "undefined", value |-> 0]
Number(n) == [type |-> "number", value |-> n]
String(n) == [type |-> "string", value |-> n]
MaxUsages == {Undefined, Number(0), String(0), Number(1), Number(2)}
MinAmounts == {Undefined, Number(0), String(0), Number(2)}
\* amounts submitted to POST /orders in SpecSeq: absent or 0, and whole
\* hundredths
SeqOrderAmounts == {0} \cup OrderAmounts
\* discounts created in SpecSeq: every balance in both kinds without limits,
\* and every combination of the limits on a partial discount of balance 1
SeqDiscounts ==
  [balance : Balances, isFullDiscount : BOOLEAN, maxUsage : {Undefined},
   minAmount : {Undefined}]
    \cup [balance : {1}, isFullDiscount : {FALSE}, maxUsage : MaxUsages, minAmount : MinAmounts]
SeqPayments ==
  [orderId : OrderIds, discountCode : RawCodes, paymentMethod : {"alipay"},
   userId : OrderUsers]
    \cup [orderId : OrderIds, discountCode : {<< >>, <<"A">>}, paymentMethod : {"alipay"},
          userId : Users \ OrderUsers]
    \cup {[orderId |-> << >>, discountCode |-> << >>, paymentMethod |-> "alipay", userId |-> "u1"],
          [orderId |-> <<"order_", 1>>, discountCode |-> << >>, paymentMethod |-> "", userId |-> "u1"],
          [orderId |-> <<"order_", 1>>, discountCode |-> << >>, paymentMethod |-> "alipay", userId |-> ""]}

\* inputs of the concurrent specification Spec: well-formed requests only
ConcOrderIds == {<<"order_", n>> : n \in 1..MaxOrders}
ConcCodes == {<< >>, <<"A">>}
ConcCreateCodes == {<<"A">>}
ConcBalances == {1}
ConcMaxUsages == {Undefined, Number(1)}
ConcMinAmounts == {Undefined, Number(2)}
ConcFlags == {FALSE}

\* codes submitted to overlapping POST /discounts requests in SpecCreate
DupCodes == {<< >>, <<"A">>, <<" ", "A">>, <<"A", " ">>, <<"B">>}
DupBalances == {-1, 1}
\* amounts submitted to POST /orders in SpecCreate: absent or 0, negative,
\* less than half a hundredth, and whole hundredths
DupOrderAmounts == {0, -10, 4} \cup OrderAmounts
DupDiscounts ==
  [isFullDiscount : {FALSE}, maxUsage : {Undefined, String(0)}, minAmount : {Undefined}]

\* bodies of PUT /orders/{id}: partial order fields, and the empty object
PutBodies ==
  {[status |-> "pending"], [status |-> "cancelled"], [paymentMethod |-> "wechat"],
   [k \in {} |-> ""]}
\* the same, and bodies that carry the two protected keys
FrameBodies ==
  PutBodies \cup
  {[orderId |-> <<"order_", 2>>, createdAt |-> "forged", paymentMethod |-> "wechat"],
   [orderId |-> <<"order_", 2>>, createdAt |-> "forged"]}

VARIABLES orders, discounts, paymentRecords, pc, local, deleting, response,
          dbInitialized, schema, boot, stats

vars == <<orders, discounts, paymentRecords, pc, local, deleting, response,
          dbInitialized, schema, boot, stats>>

\* the module-level flag of a route, the schema objects of the database, each
\* request's position in ensureDbInitialized, and the running GET /stats
platform == <<dbInitialized, schema, boot, stats>>
stores == <<orders, discounts, paymentRecords>>

\* ---- helpers -------------------------------------------------------------
Min(a, b) == IF a <= b THEN a ELSE b
Max(a, b) == IF a >= b THEN a ELSE b

\* String.prototype.trim on a sequence of one-character strings
RECURSIVE TrimLeft(_)
TrimLeft(s) == IF s # << >> /\ Head(s) = " " THEN TrimLeft(Tail(s)) ELSE s
RECURSIVE TrimRight(_)
TrimRight(s) ==
  IF s # << >> /\ s[Len(s)] = " " THEN TrimRight(SubSeq(s, 1, Len(s) - 1)) ELSE s
Trim(s) == TrimRight(TrimLeft(s))

\* a JavaScript number or numeric string written to a DECIMAL(10,2) column:
\* thousandths rounded to hundredths, half away from zero
toDecimal2(x) == IF x >= 0 THEN (x + 5) \div 10 ELSE 0 - ((5 - x) \div 10)

\* truthiness of an optional JSON value: absent and the number 0 are falsy,
\* a non-empty string is truthy, "0" included
Truthy(v) == v.type = "string" \/ (v.type = "number" /\ v.value # 0)
\* maxUsage ? parseInt(maxUsage) : undefined (and the same with parseFloat
\* for minAmount); undefined is stored as NULL
parseLimit(v) == IF Truthy(v) THEN {v.value} ELSE {}

\* generateId(prefix): a fresh id; n is the number of ids already handed out
generateId(prefix, n) == <<prefix, n + 1>>

\* null / absent values, one per record shape
NoOrder ==
  [orderId |-> << >>, amount |-> 0, balance |-> 0, status |-> "",
   paymentMethod |-> "", userId |-> "", createdAt |-> "", updatedAt |-> {}]
NoDiscount ==
  [discountId |-> << >>, code |-> << >>, balance |-> 0, isFullDiscount |-> FALSE,
   status |-> "", usageCount |-> 0, maxUsage |-> {}, minAmount |-> {}]
NoRecord ==
  [orderId |-> << >>, amount |-> 0, paidAmount |-> 0, discountAmount |-> 0,
   paymentMethod |-> "", userId |-> "", discountId |-> << >>, discountCode |-> << >>]
NoLocal ==
  [orderId |-> << >>, discountCode |-> << >>, paymentMethod |-> "", userId |-> "",
   order |-> NoOrder, discount |-> NoDiscount, discountAmount |-> 0,
   finalAmount |-> 0, updatedOrder |-> NoOrder]
NoData ==
  [totalOrders |-> 0, totalRevenue |-> 0, totalDiscounts |-> 0, totalPayments |-> 0]
NoResponse ==
  [route |-> "", status |-> 0, error |-> "", order |-> NoOrder,
   paymentRecord |-> NoRecord, discount |-> NoDiscount, originalAmount |-> 0,
   discountAmount |-> 0, finalAmount |-> 0, savings |-> 0, data |-> NoData]
NoBoot ==
  [pc |-> "idle", i |-> 0, delay |-> 0, calls |-> 0, waited |-> << >>,
   outcome |-> "", error |-> 0]
NoStats == [running |-> FALSE, pending |-> {}, data |-> NoData]

\* NextResponse.json({ success: false, error }, { status })
ErrorResponse(route, st, err) ==
  [NoResponse EXCEPT !.route = route, !.status = st, !.error = err]

\* ---- storage layer -------------------------------------------------------
\* OrderService.getOrder
getOrder(ords, orderId) == IF orderId \in DOMAIN ords THEN ords[orderId] ELSE NoOrder

\* OrderService.updateOrder: field-level merge of the keys present in updates;
\* updated_at is set by every UPDATE (a timestamp, here: null {} or set {"now"})
\* (variant: no key of the updates is skipped)
UpdatableKeys_All(updates) == DOMAIN updates
UpdatableKeys(updates) == DOMAIN updates \ {"orderId", "createdAt"}
\* (variant: UPDATE ... WHERE order_id = $n AND status = 'pending')
updateOrder_IfPending(ords, orderId, updates) ==
  IF UpdatableKeys(updates) = {} \/ orderId \notin DOMAIN ords
       \/ ords[orderId].status # "pending"
    THEN ords
    ELSE [ords EXCEPT ![orderId] =
            [k \in DOMAIN @ |-> IF k = "updatedAt" THEN {"now"}
                                ELSE IF k \in UpdatableKeys(updates) THEN updates[k]
                                ELSE @[k]]]
updateOrder(ords, orderId, updates) ==
  IF UpdatableKeys(updates) = {} \/ orderId \notin DOMAIN ords
    THEN ords
    ELSE [ords EXCEPT ![orderId] =
            [k \in DOMAIN @ |-> IF k = "updatedAt" THEN {"now"}
                                ELSE IF k \in UpdatableKeys(updates) THEN updates[k]
                                ELSE @[k]]]

\* DiscountService.getDiscountByCode: exact match on the code column
getDiscountByCode(discs, code) ==
  IF \E d \in DOMAIN discs : discs[d].code = code
    THEN discs[CHOOSE d \in DOMAIN discs : discs[d].code = code]
    ELSE NoDiscount

\* (variant: usage limit tested with > instead of >=)
validateDiscount_OneMore(discs, code, orderAmount) ==
  LET discount == getDiscountByCode(discs, code) IN
  IF discount = NoDiscount
    THEN [valid |-> FALSE, discount |-> NoDiscount, message |-> "NotFound"]
  ELSE IF discount.status # "active"
    THEN [valid |-> FALSE, discount |-> NoDiscount, message |-> "Inactive"]
  ELSE IF \E m \in discount.maxUsage : m # 0 /\ discount.usageCount > m
    THEN [valid |-> FALSE, discount |-> NoDiscount, message |-> "UsageExceeded"]
  ELSE IF \E m \in discount.minAmount : m # 0 /\ orderAmount < m
    THEN [valid |-> FALSE, discount |-> NoDiscount, message |-> "BelowMinimum"]
  ELSE [valid |-> TRUE, discount |-> discount, message |-> ""]

\* (variant: minimum amount tested with <= instead of <)
validateDiscount_AboveMinimum(discs, code, orderAmount) ==
  LET discount == getDiscountByCode(discs, code) IN
  IF discount = NoDiscount
    THEN [valid |-> FALSE, discount |-> NoDiscount, message |-> "NotFound"]
  ELSE IF discount.status # "active"
    THEN [valid |-> FALSE, discount |-> NoDiscount, message |-> "Inactive"]
  ELSE IF \E m \in discount.maxUsage : m # 0 /\ discount.usageCount >= m
    THEN [valid |-> FALSE, discount |-> NoDiscount, message |-> "UsageExceeded"]
  ELSE IF \E m \in discount.minAmount : m # 0 /\ orderAmount <= m
    THEN [valid |-> FALSE, discount |-> NoDiscount, message |-> "BelowMinimum"]
  ELSE [valid |-> TRUE, discount |-> discount, message |-> ""]

\* DiscountService.validateDiscount; the messages are named after the four
\* rejections (code does not exist, inactive, usage limit reached, below the
\* minimum order amount)
validateDiscount(discs, code, orderAmount) ==
  LET discount == getDiscountByCode(discs, code) IN
  IF discount = NoDiscount
    THEN [valid |-> FALSE, discount |-> NoDiscount, message |-> "NotFound"]
  ELSE IF discount.status # "active"
    THEN [valid |-> FALSE, discount |-> NoDiscount, message |-> "Inactive"]
  ELSE IF \E m \in discount.maxUsage : m # 0 /\ discount.usageCount >= m
    THEN [valid |-> FALSE, discount |-> NoDiscount, message |-> "UsageExceeded"]
  ELSE IF \E m \in discount.minAmount : m # 0 /\ orderAmount < m
    THEN [valid |-> FALSE, discount |-> NoDiscount, message |-> "BelowMinimum"]
  ELSE [valid |-> TRUE, discount |-> discount, message |-> ""]

\* (variant: SET usage_count = 1, marking the code as used)
applyDiscount_MarksUsed(discs, discountId) ==
  IF discountId \in DOMAIN discs
    THEN [discs EXCEPT ![discountId].usageCount = 1]
    ELSE discs

\* DiscountService.applyDiscount: usage_count = usage_count + 1
applyDiscount(discs, discountId) ==
  IF discountId \in DOMAIN discs
    THEN [discs EXCEPT ![discountId].usageCount = @ + 1]
    ELSE discs

\* (variant: one record per order, a second settlement overwrites the first)
createPaymentRecord_Upsert(records, recordData) ==
  IF \E i \in 1..Len(records) : records[i].orderId = recordData.orderId
    THEN [i \in 1..Len(records) |->
            IF records[i].orderId = recordData.orderId THEN recordData ELSE records[i]]
    ELSE Append(records, recordData)

\* PaymentRecordService.createPaymentRecord: INSERT ... RETURNING *
createPaymentRecord(records, recordData) == Append(records, recordData)

\* the discount arithmetic of the payment route (both branches of the
\* isFullDiscount test compute the same thing)
paymentDiscountAmount(discount, amount) ==
  IF discount.isFullDiscount
    THEN Min(discount.balance, amount)
    ELSE Min(discount.balance, amount)
paymentFinalAmount_Waived(amount, discountAmount) == 0
paymentFinalAmount(amount, discountAmount) == Max(0, amount - discountAmount)

\* the same arithmetic, as written a second time in the validate route
previewDiscountAmount_NoClamp(discount, amount) == discount.balance
previewDiscountAmount(discount, amount) ==
  IF discount.isFullDiscount
    THEN Min(discount.balance, amount)
    ELSE Min(discount.balance, amount)
previewFinalAmount(amount, discountAmount) == Max(0, amount - discountAmount)

\* ---- bookkeeping for the bounds -------------------------------------------
InFlight == {p \in Procs : pc[p] # "idle"}
RECURSIVE SumUsage(_, _)
SumUsage(discs, ids) ==
  IF ids = {} THEN 0
  ELSE LET d == CHOOSE x \in ids : TRUE IN discs[d].usageCount + SumUsage(discs, ids \ {d})
TotalUsage == SumUsage(discounts, DOMAIN discounts)

Init ==
  /\ orders = << >>
  /\ discounts = << >>
  /\ paymentRecords = << >>
  /\ pc = [p \in Procs |-> "idle"]
  /\ local = [p \in Procs |-> NoLocal]
  /\ deleting = {}
  /\ response = NoResponse
  /\ dbInitialized = FALSE
  /\ schema = {}
  /\ boot = [p \in Procs |-> NoBoot]
  /\ stats = NoStats

\* ---- POST /orders ---------------------------------------------------------
CreateOrder(amount, userId) ==
  /\ Cardinality(DOMAIN orders) < MaxOrders
  /\ IF amount = 0 \/ userId = ""
       THEN /\ response' = ErrorResponse("orders", 400, "Amount and userId are required")
            /\ UNCHANGED orders
     ELSE IF amount <= 0
       THEN /\ response' = ErrorResponse("orders", 400, "Amount must be greater than 0")
            /\ UNCHANGED orders
     ELSE LET orderId == generateId("order_", Cardinality(DOMAIN orders))
              order == [orderId |-> orderId, amount |-> toDecimal2(amount),
                        balance |-> toDecimal2(amount),
                        status |-> "pending", paymentMethod |-> "pending",
                        userId |-> userId, createdAt |-> "created", updatedAt |-> {}]
          IN /\ orders' = orders @@ (orderId :> order)
             /\ response' = [NoResponse EXCEPT !.route = "orders", !.status = 200,
                                               !.order = order]
  /\ UNCHANGED <<discounts, paymentRecords, pc, local, deleting>>
  /\ UNCHANGED platform

\* ---- POST /discounts ------------------------------------------------------
\* the existence check looks the submitted code up as it is, the insert
\* stores the trimmed code and fails on the unique constraint of the column
CreateDiscount(code, balance, isFullDiscount, maxUsage, minAmount) ==
  /\ Cardinality(DOMAIN discounts) < MaxDiscounts
  /\ IF code = << >>
       THEN /\ response' = ErrorResponse("discounts", 400, "Code and balance are required")
            /\ UNCHANGED discounts
     ELSE IF balance < 0
       THEN /\ response' = ErrorResponse("discounts", 400,
                                         "Balance must be greater than or equal to 0")
            /\ UNCHANGED discounts
     ELSE IF getDiscountByCode(discounts, code) # NoDiscount
             \/ \E d \in DOMAIN discounts : discounts[d].code = Trim(code)
       THEN /\ response' = ErrorResponse("discounts", 400, "Discount code already exists")
            /\ UNCHANGED discounts
     ELSE LET discountId == generateId("discount_", Cardinality(DOMAIN discounts))
              discount == [discountId |-> discountId, code |-> Trim(code),
                           balance |-> balance, isFullDiscount |-> isFullDiscount,
                           status |-> "active", usageCount |-> 0,
                           maxUsage |-> parseLimit(maxUsage),
                           minAmount |-> parseLimit(minAmount)]
          IN /\ discounts' = discounts @@ (discountId :> discount)
             /\ response' = [NoResponse EXCEPT !.route = "discounts", !.status = 200,
                                               !.discount = discount]
  /\ UNCHANGED <<orders, paymentRecords, pc, local, deleting>>
  /\ UNCHANGED platform

\* ---- POST /discounts/validate (preview) -----------------------------------
\* (variant: the preview redeems the code it accepts)
ValidatePOST_Redeems(code, amount) ==
  /\ IF code = << >>
       THEN /\ response' = ErrorResponse("validate", 400, "Code and amount are required")
            /\ UNCHANGED discounts
     ELSE IF amount <= 0
       THEN /\ response' = ErrorResponse("validate", 400, "Amount must be greater than 0")
            /\ UNCHANGED discounts
     ELSE LET validation == validateDiscount(discounts, Trim(code), amount) IN
       IF ~validation.valid
         THEN /\ response' = ErrorResponse("validate", 400, validation.message)
              /\ UNCHANGED discounts
         ELSE LET discount == validation.discount
                  discountAmount == previewDiscountAmount(discount, amount)
                  finalAmount == previewFinalAmount(amount, discountAmount)
              IN /\ response' = [NoResponse EXCEPT
                                !.route = "validate", !.status = 200,
                                !.discount = discount, !.originalAmount = amount,
                                !.discountAmount = discountAmount,
                                !.finalAmount = finalAmount, !.savings = discountAmount]
                 /\ discounts' = applyDiscount(discounts, discount.discountId)
  /\ UNCHANGED <<orders, paymentRecords, pc, local, deleting>>
  /\ UNCHANGED platform

ValidatePOST(code, amount) ==
  /\ IF code = << >>
       THEN response' = ErrorResponse("validate", 400, "Code and amount are required")
     ELSE IF amount <= 0
       THEN response' = ErrorResponse("validate", 400, "Amount must be greater than 0")
     ELSE LET validation == validateDiscount(discounts, Trim(code), amount) IN
       IF ~validation.valid
         THEN response' = ErrorResponse("validate", 400, validation.message)
         ELSE LET discount == validation.discount
                  discountAmount == previewDiscountAmount(discount, amount)
                  finalAmount == previewFinalAmount(amount, discountAmount)
              IN response' = [NoResponse EXCEPT
                                !.route = "validate", !.status = 200,
                                !.discount = discount, !.originalAmount = amount,
                                !.discountAmount = discountAmount,
                                !.finalAmount = finalAmount, !.savings = discountAmount]
  /\ UNCHANGED <<orders, discounts, paymentRecords, pc, local, deleting>>
  /\ UNCHANGED platform

\* ---- POST /payment (settlement), one action per store round trip ----------
Finish(p, resp) ==
  /\ pc' = [pc EXCEPT ![p] = "idle"]
  /\ local' = [local EXCEPT ![p] = NoLocal]
  /\ response' = resp

\* (variant: the ownership check left out)
PaymentPOST_NoOwnerCheck(p, orderId, discountCode, paymentMethod, userId) ==
  /\ pc[p] = "idle"
  /\ Len(paymentRecords) + Cardinality(InFlight) < MaxRecords
  /\ TotalUsage + Cardinality(InFlight) < MaxUsageTotal
  /\ LET order == getOrder(orders, orderId) IN
     IF orderId = << >> \/ paymentMethod = "" \/ userId = ""
       THEN Finish(p, ErrorResponse("payment", 400,
                                    "OrderId, paymentMethod and userId are required"))
     ELSE IF order = NoOrder
       THEN Finish(p, ErrorResponse("payment", 404, "Order not found"))
     ELSE IF order.status # "pending"
       THEN Finish(p, ErrorResponse("payment", 400, "Order is not pending"))
     ELSE /\ pc' = [pc EXCEPT ![p] =
                      IF Trim(discountCode) # << >> THEN "validate" ELSE "gateway"]
          /\ local' = [local EXCEPT ![p] =
               [NoLocal EXCEPT !.orderId = orderId, !.discountCode = discountCode,
                               !.paymentMethod = paymentMethod, !.userId = userId,
                               !.order = order, !.discountAmount = 0,
                               !.finalAmount = order.amount]]
          /\ response' = NoResponse
  /\ UNCHANGED <<stores, deleting>>
  /\ UNCHANGED platform

\* (variant: the discount of the request is redeemed before the ownership check)
PaymentPOST_EagerRedeem(p, orderId, discountCode, paymentMethod, userId) ==
  /\ pc[p] = "idle"
  /\ Len(paymentRecords) + Cardinality(InFlight) < MaxRecords
  /\ TotalUsage + Cardinality(InFlight) < MaxUsageTotal
  /\ LET order == getOrder(orders, orderId) IN
     IF orderId = << >> \/ paymentMethod = "" \/ userId = ""
       THEN /\ Finish(p, ErrorResponse("payment", 400,
                                       "OrderId, paymentMethod and userId are required"))
            /\ UNCHANGED discounts
     ELSE IF order = NoOrder
       THEN /\ Finish(p, ErrorResponse("payment", 404, "Order not found"))
            /\ UNCHANGED discounts
     ELSE IF order.status # "pending"
       THEN /\ Finish(p, ErrorResponse("payment", 400, "Order is not pending"))
            /\ UNCHANGED discounts
     ELSE IF order.userId # userId
       THEN /\ Finish(p, ErrorResponse("payment", 403, "Unauthorized"))
            /\ discounts' = applyDiscount(discounts,
                               getDiscountByCode(discounts, Trim(discountCode)).discountId)
     ELSE /\ pc' = [pc EXCEPT ![p] =
                      IF Trim(discountCode) # << >> THEN "validate" ELSE "gateway"]
          /\ local' = [local EXCEPT ![p] =
               [NoLocal EXCEPT !.orderId = orderId, !.discountCode = discountCode,
                               !.paymentMethod = paymentMethod, !.userId = userId,
                               !.order = order, !.discountAmount = 0,
                               !.finalAmount = order.amount]]
          /\ response' = NoResponse
          /\ UNCHANGED discounts
  /\ UNCHANGED <<orders, paymentRecords, deleting>>
  /\ UNCHANGED platform

\* (variant: the ownership check placed before the status check)
PaymentPOST_OwnerFirst(p, orderId, discountCode, paymentMethod, userId) ==
  /\ pc[p] = "idle"
  /\ Len(paymentRecords) + Cardinality(InFlight) < MaxRecords
  /\ TotalUsage + Cardinality(InFlight) < MaxUsageTotal
  /\ LET order == getOrder(orders, orderId) IN
     IF orderId = << >> \/ paymentMethod = "" \/ userId = ""
       THEN Finish(p, ErrorResponse("payment", 400,
                                    "OrderId, paymentMethod and userId are required"))
     ELSE IF order = NoOrder
       THEN Finish(p, ErrorResponse("payment", 404, "Order not found"))
     ELSE IF order.userId # userId
       THEN Finish(p, ErrorResponse("payment", 403, "Unauthorized"))
     ELSE IF order.status # "pending"
       THEN Finish(p, ErrorResponse("payment", 400, "Order is not pending"))
     ELSE /\ pc' = [pc EXCEPT ![p] =
                      IF Trim(discountCode) # << >> THEN "validate" ELSE "gateway"]
          /\ local' = [local EXCEPT ![p] =
               [NoLocal EXCEPT !.orderId = orderId, !.discountCode = discountCode,
                               !.paymentMethod = paymentMethod, !.userId = userId,
                               !.order = order, !.discountAmount = 0,
                               !.finalAmount = order.amount]]
          /\ response' = NoResponse
  /\ UNCHANGED <<stores, deleting>>
  /\ UNCHANGED platform

\* request received: required fields, order lookup and the precondition
\* checks; this is the handler up to and including its first store access
PaymentPOST(p, orderId, discountCode, paymentMethod, userId) ==
  /\ pc[p] = "idle"
  /\ Len(paymentRecords) + Cardinality(InFlight) < MaxRecords
  /\ TotalUsage + Cardinality(InFlight) < MaxUsageTotal
  /\ LET order == getOrder(orders, orderId) IN
     IF orderId = << >> \/ paymentMethod = "" \/ userId = ""
       THEN Finish(p, ErrorResponse("payment", 400,
                                    "OrderId, paymentMethod and userId are required"))
     ELSE IF order = NoOrder
       THEN Finish(p, ErrorResponse("payment", 404, "Order not found"))
     ELSE IF order.status # "pending"
       THEN Finish(p, ErrorResponse("payment", 400, "Order is not pending"))
     ELSE IF order.userId # userId
       THEN Finish(p, ErrorResponse("payment", 403, "Unauthorized"))
     ELSE /\ pc' = [pc EXCEPT ![p] =
                      IF Trim(discountCode) # << >> THEN "validate" ELSE "gateway"]
          /\ local' = [local EXCEPT ![p] =
               [NoLocal EXCEPT !.orderId = orderId, !.discountCode = discountCode,
                               !.paymentMethod = paymentMethod, !.userId = userId,
                               !.order = order, !.discountAmount = 0,
                               !.finalAmount = order.amount]]
          /\ response' = NoResponse
  /\ UNCHANGED <<stores, deleting>>
  /\ UNCHANGED platform

\* (variant: a rejected code is dropped and the settlement goes on undiscounted)
PaymentValidateDiscount_DropsCode(p) ==
  /\ pc[p] = "validate"
  /\ LET order == local[p].order
         validation == validateDiscount(discounts, Trim(local[p].discountCode), order.amount)
     IN IF ~validation.valid
          THEN /\ pc' = [pc EXCEPT ![p] = "gateway"]
               /\ local' = local
               /\ response' = NoResponse
          ELSE LET discount == validation.discount
                   discountAmount == paymentDiscountAmount(discount, order.amount)
                   finalAmount == paymentFinalAmount(order.amount, discountAmount)
               IN /\ pc' = [pc EXCEPT ![p] = "apply"]
                  /\ local' = [local EXCEPT
                       ![p].discount = discount,
                       ![p].discountAmount = discountAmount,
                       ![p].finalAmount = finalAmount]
                  /\ response' = NoResponse
  /\ UNCHANGED <<stores, deleting>>
  /\ UNCHANGED platform

\* discount phase: validation and the discount arithmetic
PaymentValidateDiscount(p) ==
  /\ pc[p] = "validate"
  /\ LET order == local[p].order
         validation == validateDiscount(discounts, Trim(local[p].discountCode), order.amount)
     IN IF ~validation.valid
          THEN Finish(p, ErrorResponse("payment", 400, validation.message))
          ELSE LET discount == validation.discount
                   discountAmount == paymentDiscountAmount(discount, order.amount)
                   finalAmount == paymentFinalAmount(order.amount, discountAmount)
               IN /\ pc' = [pc EXCEPT ![p] = "apply"]
                  /\ local' = [local EXCEPT
                       ![p].discount = discount,
                       ![p].discountAmount = discountAmount,
                       ![p].finalAmount = finalAmount]
                  /\ response' = NoResponse
  /\ UNCHANGED <<stores, deleting>>
  /\ UNCHANGED platform

\* discount phase: the usage increment
PaymentApplyDiscount(p) ==
  /\ pc[p] = "apply"
  /\ discounts' = applyDiscount(discounts, local[p].discount.discountId)
  /\ pc' = [pc EXCEPT ![p] = "gateway"]
  /\ response' = NoResponse
  /\ UNCHANGED <<orders, paymentRecords, local, deleting>>
  /\ UNCHANGED platform

\* (variant: after the gateway the record is inserted before the order update)
SimulatePaymentSuccess_RecordFirst(p) ==
  /\ pc[p] = "gateway"
  /\ pc' = [pc EXCEPT ![p] = "createRecord"]
  /\ local' = [local EXCEPT ![p].updatedOrder = local[p].order]
  /\ response' = NoResponse
  /\ UNCHANGED <<stores, deleting>>
  /\ UNCHANGED platform

\* simulatePayment: Math.random() > 0.05, the gateway accepts
SimulatePaymentSuccess(p) ==
  /\ pc[p] = "gateway"
  /\ pc' = [pc EXCEPT ![p] = "updateOrder"]
  /\ response' = NoResponse
  /\ UNCHANGED <<stores, local, deleting>>
  /\ UNCHANGED platform

\* (variant: a declined payment cancels the order)
SimulatePaymentFailure_Cancels(p) ==
  /\ pc[p] = "gateway"
  /\ Finish(p, ErrorResponse("payment", 400, "Payment failed"))
  /\ orders' = updateOrder(orders, local[p].orderId, [status |-> "cancelled"])
  /\ UNCHANGED <<discounts, paymentRecords, deleting>>
  /\ UNCHANGED platform

\* (variant: the usage increment is taken back when the gateway declines)
SimulatePaymentFailure_Rollback(p) ==
  /\ pc[p] = "gateway"
  /\ Finish(p, ErrorResponse("payment", 400, "Payment failed"))
  /\ discounts' = IF local[p].discount = NoDiscount THEN discounts
                  ELSE [discounts EXCEPT ![local[p].discount.discountId].usageCount = @ - 1]
  /\ UNCHANGED <<orders, paymentRecords, deleting>>
  /\ UNCHANGED platform

\* simulatePayment: the gateway declines
SimulatePaymentFailure(p) ==
  /\ pc[p] = "gateway"
  /\ Finish(p, ErrorResponse("payment", 400, "Payment failed"))
  /\ UNCHANGED <<stores, deleting>>
  /\ UNCHANGED platform

\* (variant: the order keeps its full amount as balance)
PaymentUpdateOrder_FullBalance(p) ==
  /\ pc[p] = "updateOrder"
  /\ orders' = updateOrder(orders, local[p].orderId,
                           [status |-> "paid", paymentMethod |-> local[p].paymentMethod,
                            balance |-> local[p].order.amount])
  /\ pc' = [pc EXCEPT ![p] = "createRecord"]
  /\ local' = [local EXCEPT ![p].updatedOrder = getOrder(orders', local[p].orderId)]
  /\ response' = NoResponse
  /\ UNCHANGED <<discounts, paymentRecords, deleting>>
  /\ UNCHANGED platform

\* commit phase: order update
PaymentUpdateOrder(p) ==
  /\ pc[p] = "updateOrder"
  /\ orders' = updateOrder(orders, local[p].orderId,
                           [status |-> "paid", paymentMethod |-> local[p].paymentMethod,
                            balance |-> local[p].finalAmount])
  /\ pc' = [pc EXCEPT ![p] = "createRecord"]
  /\ local' = [local EXCEPT ![p].updatedOrder = getOrder(orders', local[p].orderId)]
  /\ response' = NoResponse
  /\ UNCHANGED <<discounts, paymentRecords, deleting>>
  /\ UNCHANGED platform

\* (variant: the record keeps the discount code as submitted, untrimmed)
PaymentCreateRecord_RawCode(p) ==
  /\ pc[p] = "createRecord"
  /\ LET order == local[p].order
         discount == local[p].discount
         paymentRecord ==
           [orderId |-> order.orderId, amount |-> order.amount,
            paidAmount |-> local[p].finalAmount,
            discountAmount |-> local[p].discountAmount,
            paymentMethod |-> local[p].paymentMethod, userId |-> local[p].userId,
            discountId |-> discount.discountId,
            discountCode |-> local[p].discountCode]
     IN /\ paymentRecords' = createPaymentRecord(paymentRecords, paymentRecord)
        /\ Finish(p, [NoResponse EXCEPT
              !.route = "payment", !.status = 200,
              !.order = local[p].updatedOrder,
              !.paymentRecord = paymentRecord, !.discount = discount,
              !.originalAmount = order.amount,
              !.discountAmount = local[p].discountAmount,
              !.finalAmount = local[p].finalAmount,
              !.savings = local[p].discountAmount])
  /\ UNCHANGED <<orders, discounts, deleting>>
  /\ UNCHANGED platform

\* commit phase: payment record insert and the success response
PaymentCreateRecord(p) ==
  /\ pc[p] = "createRecord"
  /\ LET order == local[p].order
         discount == local[p].discount
         paymentRecord ==
           [orderId |-> order.orderId, amount |-> order.amount,
            paidAmount |-> local[p].finalAmount,
            discountAmount |-> local[p].discountAmount,
            paymentMethod |-> local[p].paymentMethod, userId |-> local[p].userId,
            discountId |-> discount.discountId,
            discountCode |-> Trim(local[p].discountCode)]
     IN /\ paymentRecords' = createPaymentRecord(paymentRecords, paymentRecord)
        /\ Finish(p, [NoResponse EXCEPT
              !.route = "payment", !.status = 200,
              !.order = local[p].updatedOrder,
              !.paymentRecord = paymentRecord, !.discount = discount,
              !.originalAmount = order.amount,
              !.discountAmount = local[p].discountAmount,
              !.finalAmount = local[p].finalAmount,
              !.savings = local[p].discountAmount])
  /\ UNCHANGED <<orders, discounts, deleting>>
  /\ UNCHANGED platform

\* (variant: a failed insert puts the order back to pending)
PaymentCreateRecordFails_Reverts(p) ==
  /\ pc[p] = "createRecord"
  /\ orders' = updateOrder(orders, local[p].orderId,
                           [status |-> "pending", paymentMethod |-> "pending",
                            balance |-> local[p].order.amount])
  /\ Finish(p, ErrorResponse("payment", 500, "Failed to process payment"))
  /\ UNCHANGED <<discounts, paymentRecords, deleting>>
  /\ UNCHANGED platform

\* commit phase: the INSERT of the payment record throws (the query fails);
\* the catch block of the handler answers 500
PaymentCreateRecordFails(p) ==
  /\ pc[p] = "createRecord"
  /\ Finish(p, ErrorResponse("payment", 500, "Failed to process payment"))
  /\ UNCHANGED <<stores, deleting>>
  /\ UNCHANGED platform

\* ---- DELETE /orders/{id} (cancel: pending -> cancelled) --------------------
\* (variant: the cancel does not test the status it read)
DeleteCheck_AnyStatus(orderId) ==
  /\ orderId \notin deleting
  /\ LET existingOrder == getOrder(orders, orderId) IN
     IF orderId = << >>
       THEN /\ response' = ErrorResponse("delete", 400, "Order id is required")
            /\ UNCHANGED deleting
     ELSE IF existingOrder = NoOrder
       THEN /\ response' = ErrorResponse("delete", 404, "Order not found")
            /\ UNCHANGED deleting
     ELSE /\ deleting' = deleting \cup {orderId}
          /\ response' = NoResponse
  /\ UNCHANGED <<stores, pc, local>>
  /\ UNCHANGED platform

\* lookup and the pending check
DeleteCheck(orderId) ==
  /\ orderId \notin deleting
  /\ LET existingOrder == getOrder(orders, orderId) IN
     IF orderId = << >>
       THEN /\ response' = ErrorResponse("delete", 400, "Order id is required")
            /\ UNCHANGED deleting
     ELSE IF existingOrder = NoOrder
       THEN /\ response' = ErrorResponse("delete", 404, "Order not found")
            /\ UNCHANGED deleting
     ELSE IF existingOrder.status # "pending"
       THEN /\ response' = ErrorResponse("delete", 400, "Only pending orders can be deleted")
            /\ UNCHANGED deleting
     ELSE /\ deleting' = deleting \cup {orderId}
          /\ response' = NoResponse
  /\ UNCHANGED <<stores, pc, local>>
  /\ UNCHANGED platform

\* the soft delete: status = cancelled
DeleteUpdate(orderId) ==
  /\ orderId \in deleting
  /\ orders' = updateOrder(orders, orderId, [status |-> "cancelled"])
  /\ deleting' = deleting \ {orderId}
  /\ response' = [NoResponse EXCEPT !.route = "delete", !.status = 200]
  /\ UNCHANGED <<discounts, paymentRecords, pc, local>>
  /\ UNCHANGED platform

\* ---- POST /discounts, one action per store round trip ----------------------
\* required fields, the balance test and the lookup of the code as submitted
CreateDiscountCheck(p, code, balance, isFullDiscount, maxUsage, minAmount) ==
  /\ pc[p] = "idle"
  /\ IF code = << >>
       THEN Finish(p, ErrorResponse("discounts", 400, "Code and balance are required"))
     ELSE IF balance < 0
       THEN Finish(p, ErrorResponse("discounts", 400,
                                    "Balance must be greater than or equal to 0"))
     ELSE IF getDiscountByCode(discounts, code) # NoDiscount
       THEN Finish(p, ErrorResponse("discounts", 400, "Discount code already exists"))
     ELSE /\ pc' = [pc EXCEPT ![p] = "insertDiscount"]
          /\ local' = [local EXCEPT ![p] =
               [NoLocal EXCEPT !.discount =
                  [NoDiscount EXCEPT !.code = Trim(code), !.balance = balance,
                                     !.isFullDiscount = isFullDiscount,
                                     !.status = "active",
                                     !.maxUsage = parseLimit(maxUsage),
                                     !.minAmount = parseLimit(minAmount)]]]
          /\ response' = NoResponse
  /\ UNCHANGED <<stores, deleting>>
  /\ UNCHANGED platform

\* (variant: the code column without its UNIQUE constraint)
CreateDiscountInsert_NoConstraint(p) ==
  /\ pc[p] = "insertDiscount"
  /\ Cardinality(DOMAIN discounts) < MaxOverlapDiscounts
  /\ LET discountId == generateId("discount_", Cardinality(DOMAIN discounts))
         discount == [local[p].discount EXCEPT !.discountId = discountId,
                                               !.usageCount = 0]
     IN /\ discounts' = discounts @@ (discountId :> discount)
        /\ Finish(p, [NoResponse EXCEPT !.route = "discounts", !.status = 200,
                                        !.discount = discount])
  /\ UNCHANGED <<orders, paymentRecords, deleting>>
  /\ UNCHANGED platform

\* DiscountService.createDiscount: the INSERT with usage_count 0; the UNIQUE
\* constraint of the code column raises "duplicate key", answered with 400
CreateDiscountInsert(p) ==
  /\ pc[p] = "insertDiscount"
  /\ IF \E d \in DOMAIN discounts : discounts[d].code = local[p].discount.code
       THEN /\ Finish(p, ErrorResponse("discounts", 400, "Discount code already exists"))
            /\ UNCHANGED discounts
       ELSE /\ Cardinality(DOMAIN discounts) < MaxOverlapDiscounts
            /\ LET discountId == generateId("discount_", Cardinality(DOMAIN discounts))
                   discount == [local[p].discount EXCEPT !.discountId = discountId,
                                                         !.usageCount = 0]
               IN /\ discounts' = discounts @@ (discountId :> discount)
                  /\ Finish(p, [NoResponse EXCEPT !.route = "discounts", !.status = 200,
                                                  !.discount = discount])
  /\ UNCHANGED <<orders, paymentRecords, deleting>>
  /\ UNCHANGED platform

\* ---- PUT /orders/{id}: the whole body goes to updateOrder -------------------
\* orders are never removed, so the lookup and the update act as one step
PutOrder(orderId, body) ==
  /\ LET existingOrder == getOrder(orders, orderId) IN
     IF orderId = << >>
       THEN /\ response' = ErrorResponse("put", 400, "Order ID is required")
            /\ UNCHANGED orders
     ELSE IF existingOrder = NoOrder
       THEN /\ response' = ErrorResponse("put", 404, "Order not found")
            /\ UNCHANGED orders
     ELSE IF UpdatableKeys(body) = {}
       THEN /\ response' = ErrorResponse("put", 500, "Failed to update order")
            /\ UNCHANGED orders
     ELSE /\ orders' = updateOrder(orders, orderId, body)
          /\ response' = [NoResponse EXCEPT !.route = "put", !.status = 200,
                                            !.order = getOrder(orders', orderId)]
  /\ UNCHANGED <<discounts, paymentRecords, pc, local, deleting>>
  /\ UNCHANGED platform

\* ---- ensureDbInitialized / initializeDatabase / retryOperation --------------
\* initializeDatabase calls retryOperation(createTables, 3, 2000)
MaxRetries == 3
InitialDelay == 2000
BackoffMultiplier == 2

\* the statements of createTables in the order they run, every one a
\* CREATE ... IF NOT EXISTS; the eight indexes are one object here
SchemaObjects == <<"orders", "discounts", "payment_records", "indexes">>
Created(k) == {SchemaObjects[j] : j \in 1..k}
AllObjects == Created(Len(SchemaObjects))

business == <<orders, discounts, paymentRecords, pc, local, deleting>>

\* (variant: the flag is set before initializeDatabase is awaited)
EnsureDbInitialized_FlagFirst(p) ==
  /\ boot[p].pc = "idle"
  /\ boot' = [boot EXCEPT ![p] =
               [NoBoot EXCEPT !.pc = IF dbInitialized THEN "ready" ELSE "connect"]]
  /\ dbInitialized' = TRUE
  /\ response' = NoResponse
  /\ UNCHANGED <<schema, stats, business>>

\* a request enters its handler: if (!dbInitialized) await initializeDatabase()
EnsureDbInitialized(p) ==
  /\ boot[p].pc = "idle"
  /\ boot' = [boot EXCEPT ![p] =
               [NoBoot EXCEPT !.pc = IF dbInitialized THEN "ready" ELSE "connect"]]
  /\ response' = NoResponse
  /\ UNCHANGED <<dbInitialized, schema, stats, business>>

\* testConnection() returned true: retryOperation starts, i = 0, delay = initialDelay
TestConnectionOk(p) ==
  /\ boot[p].pc = "connect"
  /\ boot' = [boot EXCEPT ![p].pc = "create", ![p].i = 0, ![p].delay = InitialDelay]
  /\ response' = NoResponse
  /\ UNCHANGED <<dbInitialized, schema, stats, business>>

\* testConnection() returned false: initializeDatabase throws, the handler's
\* catch block answers 500
TestConnectionFails(p) ==
  /\ boot[p].pc = "connect"
  /\ boot' = [boot EXCEPT ![p].pc = "idle"]
  /\ response' = ErrorResponse("payment", 500, "Failed to process payment")
  /\ UNCHANGED <<dbInitialized, schema, stats, business>>

\* one invocation of the operation that runs every statement: retryOperation
\* returns its result at once
CreateTablesSucceeds(p) ==
  /\ boot[p].pc = "create"
  /\ schema' = schema \cup AllObjects
  /\ boot' = [boot EXCEPT ![p].pc = "setFlag", ![p].calls = @ + 1,
                          ![p].outcome = "returned"]
  /\ response' = NoResponse
  /\ UNCHANGED <<dbInitialized, stats, business>>

\* (variant: the error is rethrown one attempt later, at i === maxRetries)
CreateTablesFails_OneMore(p, k) ==
  /\ boot[p].pc = "create"
  /\ schema' = schema \cup Created(k)
  /\ IF boot[p].i = MaxRetries
       THEN /\ boot' = [boot EXCEPT ![p].pc = "idle", ![p].calls = @ + 1,
                                    ![p].outcome = "threw", ![p].error = boot[p].calls + 1]
            /\ response' = ErrorResponse("payment", 500, "Failed to process payment")
       ELSE /\ boot' = [boot EXCEPT ![p].pc = "wait", ![p].calls = @ + 1,
                                    ![p].error = boot[p].calls + 1]
            /\ response' = NoResponse
  /\ UNCHANGED <<dbInitialized, stats, business>>

\* one invocation of the operation that throws after k statements: the last
\* attempt rethrows its error, an earlier one goes on to the wait
CreateTablesFails(p, k) ==
  /\ boot[p].pc = "create"
  /\ schema' = schema \cup Created(k)
  /\ IF boot[p].i = MaxRetries - 1
       THEN /\ boot' = [boot EXCEPT ![p].pc = "idle", ![p].calls = @ + 1,
                                    ![p].outcome = "threw", ![p].error = boot[p].calls + 1]
            /\ response' = ErrorResponse("payment", 500, "Failed to process payment")
       ELSE /\ boot' = [boot EXCEPT ![p].pc = "wait", ![p].calls = @ + 1,
                                    ![p].error = boot[p].calls + 1]
            /\ response' = NoResponse
  /\ UNCHANGED <<dbInitialized, stats, business>>

\* setTimeout(resolve, delay) has fired; delay *= backoffMultiplier; i++
RetryWait(p) ==
  /\ boot[p].pc = "wait"
  /\ boot' = [boot EXCEPT ![p].pc = "create", ![p].i = @ + 1,
                          ![p].waited = Append(@, boot[p].delay),
                          ![p].delay = @ * BackoffMultiplier]
  /\ response' = NoResponse
  /\ UNCHANGED <<dbInitialized, schema, stats, business>>

\* initializeDatabase() has resolved: dbInitialized = true
SetDbInitialized(p) ==
  /\ boot[p].pc = "setFlag"
  /\ dbInitialized' = TRUE
  /\ boot' = [boot EXCEPT ![p].pc = "ready"]
  /\ response' = NoResponse
  /\ UNCHANGED <<schema, stats, business>>

\* the rest of the handler has run
RequestEnds(p) ==
  /\ boot[p].pc = "ready"
  /\ boot' = [boot EXCEPT ![p].pc = "idle"]
  /\ response' = NoResponse
  /\ UNCHANGED <<dbInitialized, schema, stats, business>>

\* ---- GET /stats: StatsService.getStats, four queries under Promise.all ------
StatsQueries == {"orders", "revenue", "discounts", "payments"}

\* SELECT SUM(paid_amount) FROM payment_records, parseFloat(total || '0')
RECURSIVE SumPaid(_)
SumPaid(recs) ==
  IF recs = << >> THEN 0 ELSE recs[1].paidAmount + SumPaid(Tail(recs))

\* the four queries are handed to the pool together
GetStatsStart ==
  /\ ~stats.running
  /\ stats' = [running |-> TRUE, pending |-> StatsQueries, data |-> NoData]
  /\ response' = NoResponse
  /\ UNCHANGED <<dbInitialized, schema, boot, business>>

\* one of the four queries runs, each on the store as it is at that moment
StatsQuery(q) ==
  /\ stats.running /\ q \in stats.pending
  /\ stats' = [stats EXCEPT
       !.pending = @ \ {q},
       !.data = IF q = "orders"
                  THEN [@ EXCEPT !.totalOrders = Cardinality(DOMAIN orders)]
                ELSE IF q = "revenue"
                  THEN [@ EXCEPT !.totalRevenue = SumPaid(paymentRecords)]
                ELSE IF q = "discounts"
                  THEN [@ EXCEPT !.totalDiscounts = Cardinality(DOMAIN discounts)]
                ELSE [@ EXCEPT !.totalPayments = Len(paymentRecords)]]
  /\ response' = NoResponse
  /\ UNCHANGED <<dbInitialized, schema, boot, business>>

\* all four have resolved: NextResponse.json({ success: true, data: stats })
StatsRespond ==
  /\ stats.running /\ stats.pending = {}
  /\ response' = [NoResponse EXCEPT !.route = "stats", !.status = 200,
                                    !.data = stats.data]
  /\ stats' = NoStats
  /\ UNCHANGED <<dbInitialized, schema, boot, business>>

\* ---- the concurrent system: requests interleave at every store round trip ---
Next ==
  \/ \E amount \in OrderAmounts, userId \in OrderUsers : CreateOrder(amount, userId)
  \/ \E code \in ConcCreateCodes, balance \in ConcBalances, isFullDiscount \in ConcFlags,
        maxUsage \in ConcMaxUsages, minAmount \in ConcMinAmounts :
        CreateDiscount(code, balance, isFullDiscount, maxUsage, minAmount)
  \/ \E code \in ConcCreateCodes, amount \in Amounts : ValidatePOST(code, amount)
  \/ \E p \in Procs, orderId \in ConcOrderIds, discountCode \in ConcCodes,
        paymentMethod \in Methods, userId \in OrderUsers :
        PaymentPOST(p, orderId, discountCode, paymentMethod, userId)
  \/ \E p \in Procs : PaymentValidateDiscount(p)
  \/ \E p \in Procs : PaymentApplyDiscount(p)
  \/ \E p \in Procs : SimulatePaymentSuccess(p)
  \/ \E p \in Procs : SimulatePaymentFailure(p)
  \/ \E p \in Procs : PaymentUpdateOrder(p)
  \/ \E p \in Procs : PaymentCreateRecord(p)
  \/ \E orderId \in ConcOrderIds : DeleteCheck(orderId)
  \/ \E orderId \in ConcOrderIds : DeleteUpdate(orderId)

Spec == Init /\ [][Next]_vars

\* ---- the sequential system: one request at a time, run to completion -------
Quiet == InFlight = {} /\ deleting = {}

NextSeq ==
  \/ \E amount \in SeqOrderAmounts, userId \in OrderUsers \cup {""} :
        Quiet /\ CreateOrder(amount, userId)
  \/ \E code \in CreateCodes, d \in SeqDiscounts :
        Quiet /\ CreateDiscount(code, d.balance, d.isFullDiscount, d.maxUsage, d.minAmount)
  \/ \E code \in RawCodes, amount \in 0..MaxAmount : Quiet /\ ValidatePOST(code, amount)
  \/ \E p \in SeqProcs, r \in SeqPayments :
        Quiet /\ PaymentPOST(p, r.orderId, r.discountCode, r.paymentMethod, r.userId)
  \/ \E p \in SeqProcs : PaymentValidateDiscount(p)
  \/ \E p \in SeqProcs : PaymentApplyDiscount(p)
  \/ \E p \in SeqProcs : SimulatePaymentSuccess(p)
  \/ \E p \in SeqProcs : SimulatePaymentFailure(p)
  \/ \E p \in SeqProcs : PaymentUpdateOrder(p)
  \/ \E p \in SeqProcs : PaymentCreateRecord(p)
  \/ \E orderId \in OrderIds \cup {<< >>} : Quiet /\ DeleteCheck(orderId)
  \/ \E orderId \in OrderIds : DeleteUpdate(orderId)

SpecSeq == Init /\ [][NextSeq]_vars

\* ---- every route, one request at a time, well-formed requests ---------------
NextAdmin ==
  \/ \E amount \in OrderAmounts, userId \in OrderUsers :
        Quiet /\ CreateOrder(amount, userId)
  \/ \E code \in ConcCreateCodes, balance \in ConcBalances, isFullDiscount \in ConcFlags,
        maxUsage \in ConcMaxUsages, minAmount \in ConcMinAmounts :
        Quiet /\ CreateDiscount(code, balance, isFullDiscount, maxUsage, minAmount)
  \/ \E code \in ConcCreateCodes, amount \in Amounts : Quiet /\ ValidatePOST(code, amount)
  \/ \E p \in SeqProcs, orderId \in ConcOrderIds, discountCode \in ConcCodes,
        paymentMethod \in Methods, userId \in OrderUsers :
        Quiet /\ PaymentPOST(p, orderId, discountCode, paymentMethod, userId)
  \/ \E p \in SeqProcs : PaymentValidateDiscount(p)
  \/ \E p \in SeqProcs : PaymentApplyDiscount(p)
  \/ \E p \in SeqProcs : SimulatePaymentSuccess(p)
  \/ \E p \in SeqProcs : SimulatePaymentFailure(p)
  \/ \E p \in SeqProcs : PaymentUpdateOrder(p)
  \/ \E p \in SeqProcs : PaymentCreateRecord(p)
  \/ \E orderId \in ConcOrderIds : Quiet /\ DeleteCheck(orderId)
  \/ \E orderId \in ConcOrderIds : DeleteUpdate(orderId)
  \/ \E orderId \in OrderIds \cup {<< >>}, body \in PutBodies :
        Quiet /\ PutOrder(orderId, body)

SpecAdmin == Init /\ [][NextAdmin]_vars

\* ---- the creating routes and the preview, create requests overlapping -------
NextCreate ==
  \/ \E amount \in DupOrderAmounts, userId \in OrderUsers \cup {""} :
        CreateOrder(amount, userId)
  \/ \E p \in Procs, code \in DupCodes, balance \in DupBalances, d \in DupDiscounts :
        CreateDiscountCheck(p, code, balance, d.isFullDiscount, d.maxUsage, d.minAmount)
  \/ \E p \in Procs : CreateDiscountInsert(p)
  \/ \E code \in DupCodes, amount \in Amounts : ValidatePOST(code, amount)

SpecCreate == Init /\ [][NextCreate]_vars

\* ---- settlement, one request at a time, with a store that can fail the
\* ---- insert of the payment record
NextFault ==
  \/ \E amount \in OrderAmounts, userId \in OrderUsers :
        Quiet /\ CreateOrder(amount, userId)
  \/ \E code \in ConcCreateCodes, balance \in ConcBalances, isFullDiscount \in ConcFlags,
        maxUsage \in ConcMaxUsages, minAmount \in ConcMinAmounts :
        Quiet /\ CreateDiscount(code, balance, isFullDiscount, maxUsage, minAmount)
  \/ \E p \in SeqProcs, orderId \in ConcOrderIds, discountCode \in ConcCodes,
        paymentMethod \in Methods, userId \in OrderUsers :
        Quiet /\ PaymentPOST(p, orderId, discountCode, paymentMethod, userId)
  \/ \E p \in SeqProcs : PaymentValidateDiscount(p)
  \/ \E p \in SeqProcs : PaymentApplyDiscount(p)
  \/ \E p \in SeqProcs : SimulatePaymentSuccess(p)
  \/ \E p \in SeqProcs : SimulatePaymentFailure(p)
  \/ \E p \in SeqProcs : PaymentUpdateOrder(p)
  \/ \E p \in SeqProcs : PaymentCreateRecord(p)
  \/ \E p \in SeqProcs : PaymentCreateRecordFails(p)

SpecFault == Init /\ [][NextFault]_vars

\* ---- every writer of the orders table, one request at a time -----------------
NextPut ==
  \/ \E amount \in OrderAmounts, userId \in OrderUsers :
        Quiet /\ CreateOrder(amount, userId)
  \/ \E p \in SeqProcs, orderId \in ConcOrderIds, userId \in OrderUsers :
        Quiet /\ PaymentPOST(p, orderId, << >>, "alipay", userId)
  \/ \E p \in SeqProcs : SimulatePaymentSuccess(p)
  \/ \E p \in SeqProcs : PaymentUpdateOrder(p)
  \/ \E p \in SeqProcs : PaymentCreateRecord(p)
  \/ \E orderId \in ConcOrderIds : Quiet /\ DeleteCheck(orderId)
  \/ \E orderId \in ConcOrderIds : DeleteUpdate(orderId)
  \/ \E orderId \in OrderIds \cup {<< >>}, body \in FrameBodies :
        Quiet /\ PutOrder(orderId, body)

SpecPut == Init /\ [][NextPut]_vars

\* ---- GET /stats next to a settlement ------------------------------------------
NextStats ==
  \/ \E amount \in OrderAmounts, userId \in OrderUsers : CreateOrder(amount, userId)
  \/ \E code \in ConcCreateCodes, balance \in ConcBalances, isFullDiscount \in ConcFlags,
        maxUsage \in {Undefined}, minAmount \in {Undefined} :
        CreateDiscount(code, balance, isFullDiscount, maxUsage, minAmount)
  \/ \E p \in SeqProcs, orderId \in ConcOrderIds, userId \in OrderUsers :
        PaymentPOST(p, orderId, << >>, "alipay", userId)
  \/ \E p \in SeqProcs : SimulatePaymentSuccess(p)
  \/ \E p \in SeqProcs : SimulatePaymentFailure(p)
  \/ \E p \in SeqProcs : PaymentUpdateOrder(p)
  \/ \E p \in SeqProcs : PaymentCreateRecord(p)
  \/ GetStatsStart
  \/ \E q \in StatsQueries : StatsQuery(q)
  \/ StatsRespond

SpecStats == Init /\ [][NextStats]_vars

\* ---- first requests of a fresh process, overlapping --------------------------
NextBoot ==
  \/ \E p \in Procs : EnsureDbInitialized(p)
  \/ \E p \in Procs : TestConnectionOk(p)
  \/ \E p \in Procs : TestConnectionFails(p)
  \/ \E p \in Procs : CreateTablesSucceeds(p)
  \/ \E p \in Procs, k \in 0..(Len(SchemaObjects) - 1) : CreateTablesFails(p, k)
  \/ \E p \in Procs : RetryWait(p)
  \/ \E p \in Procs : SetDbInitialized(p)
  \/ \E p \in Procs : RequestEnds(p)

SpecBoot == Init /\ [][NextBoot]_vars

\* every invocation of the operation settles and every timer fires
RetryStep(p) ==
  \/ CreateTablesSucceeds(p)
  \/ \E k \in 0..(Len(SchemaObjects) - 1) : CreateTablesFails(p, k)
  \/ RetryWait(p)

SpecBootFair == SpecBoot /\ \A p \in Procs : WF_vars(RetryStep(p))

\* ==== properties ============================================================

RecordIndexes == 1..Len(paymentRecords)

\* C1: every payment record satisfies paidAmount + discountAmount = amount,
\* amount being the amount of its order, and a record without a discount has
\* paidAmount = amount and discountAmount = 0.
C1_AmountConservation ==
  \A i \in RecordIndexes :
    LET r == paymentRecords[i] IN
      /\ r.paidAmount + r.discountAmount = r.amount
      /\ r.orderId \in DOMAIN orders /\ r.amount = orders[r.orderId].amount
      /\ r.discountId = << >> => r.paidAmount = r.amount /\ r.discountAmount = 0

\* a record of a partly discounted order: something paid, something discounted
C1_Witness ==
  \E i \in RecordIndexes :
    /\ paymentRecords[i].discountId # << >>
    /\ paymentRecords[i].paidAmount > 0
    /\ paymentRecords[i].discountAmount > 0

\* C2: for amount > 0 and balance >= 0 the preview and the settlement compute
\* discountAmount = min(balance, amount) and finalAmount = amount - discountAmount,
\* so 0 <= discountAmount <= amount and finalAmount >= 0, and a balance of at
\* least the amount gives discountAmount = amount and finalAmount = 0.
Clamped(balance, amount, discountAmount, finalAmount) ==
  /\ balance <= amount => discountAmount = balance
  /\ balance >= amount => discountAmount = amount /\ finalAmount = 0
  /\ finalAmount = amount - discountAmount
  /\ 0 <= discountAmount /\ discountAmount <= amount /\ finalAmount >= 0

C2_DiscountArithmetic ==
  /\ response.route = "validate" /\ response.status = 200
       => Clamped(response.discount.balance, response.originalAmount,
                  response.discountAmount, response.finalAmount)
  /\ \A p \in Procs :
       pc[p] \in {"apply", "gateway", "updateOrder", "createRecord"}
         /\ local[p].discount # NoDiscount
       => Clamped(local[p].discount.balance, local[p].order.amount,
                  local[p].discountAmount, local[p].finalAmount)

\* a settlement whose discount balance exceeds the order amount
C2_Witness ==
  /\ response.route = "payment" /\ response.status = 200
  /\ response.discount.balance > response.originalAmount
  /\ response.discountAmount = response.originalAmount
  /\ response.finalAmount = 0

\* C3: a settlement request on an existing order that is not pending fails
\* with "Order is not pending" whatever code, method and user it carries,
\* and writes nothing: stores unchanged and the request is over.
StartsSettlement(p) ==
  pc[p] = "idle" /\ (pc'[p] # "idle" \/ response'.route = "payment")

C3_StateGatedSettlement ==
  [][\A p \in SeqProcs :
       StartsSettlement(p)
       => \A r \in SeqPayments :
            (/\ r.orderId \in DOMAIN orders
             /\ orders[r.orderId].status # "pending"
             /\ r.paymentMethod # "" /\ r.userId # ""
             /\ PaymentPOST(p, r.orderId, r.discountCode, r.paymentMethod, r.userId))
            => /\ response'.route = "payment" /\ response'.status = 400
               /\ response'.error = "Order is not pending"
               /\ pc'[p] = "idle"
               /\ UNCHANGED <<orders, discounts, paymentRecords>>]_vars

\* a settlement was refused on a cancelled order
C3_Witness ==
  /\ response.route = "payment" /\ response.error = "Order is not pending"
  /\ \E o \in DOMAIN orders : orders[o].status = "cancelled"

\* C4: two settlements of one pending order can both get past the pending
\* check; each then commits unconditionally: the order update overwrites the
\* row whatever its status has become, the usage increment adds 1 and the
\* insert appends a record, so the last writer's values stay in the row.
C4_LastWriterWins ==
  [][\A p \in Procs :
       /\ (pc[p] = "updateOrder" /\ pc'[p] = "createRecord")
            => orders'[local[p].orderId] =
                 [orders[local[p].orderId] EXCEPT
                    !.status = "paid", !.paymentMethod = local[p].paymentMethod,
                    !.balance = local[p].finalAmount, !.updatedAt = {"now"}]
       /\ (pc[p] = "apply" /\ pc'[p] = "gateway")
            => discounts'[local[p].discount.discountId].usageCount =
                 discounts[local[p].discount.discountId].usageCount + 1
       /\ (pc[p] = "createRecord" /\ pc'[p] = "idle")
            => /\ Len(paymentRecords') = Len(paymentRecords) + 1
               /\ paymentRecords'[Len(paymentRecords')].orderId = local[p].orderId]_vars

\* one order with two records that used the same discount, the discount used
\* twice, and the row holding the values of the request whose record is first
C4_Witness ==
  \E i, j \in RecordIndexes :
    /\ i < j
    /\ paymentRecords[i].orderId = paymentRecords[j].orderId
    /\ paymentRecords[i].discountId # << >>
    /\ paymentRecords[i].discountId = paymentRecords[j].discountId
    /\ discounts[paymentRecords[i].discountId].usageCount = 2
    /\ paymentRecords[i].paymentMethod # paymentRecords[j].paymentMethod
    /\ orders[paymentRecords[i].orderId].status = "paid"
    /\ orders[paymentRecords[i].orderId].paymentMethod = paymentRecords[i].paymentMethod
    /\ orders[paymentRecords[i].orderId].balance = paymentRecords[i].paidAmount

\* C5: when the gateway declines, the request fails with "Payment failed" and
\* nothing is written or taken back: the usage count keeps the increment of
\* this request.
C5_NoRollback ==
  [][\A p \in Procs :
       (pc[p] = "gateway" /\ pc'[p] = "idle")
       => /\ response'.route = "payment" /\ response'.status = 400
          /\ response'.error = "Payment failed"
          /\ UNCHANGED <<orders, discounts, paymentRecords>>
          /\ local[p].discount # NoDiscount
               => discounts'[local[p].discount.discountId].usageCount
                    > local[p].discount.usageCount]_vars

\* no request in flight, a payment just failed, and a discount counts more
\* uses than there are records naming it
C5_Witness ==
  /\ InFlight = {}
  /\ response.route = "payment" /\ response.error = "Payment failed"
  /\ \E d \in DOMAIN discounts :
       discounts[d].usageCount
         > Cardinality({i \in RecordIndexes : paymentRecords[i].discountId = d})

\* C6: a step that answers a preview request changes no order, no discount
\* (usageCount included), no payment record and no request in flight.
C6_PreviewChangesNothing ==
  [][response'.route = "validate"
       => UNCHANGED <<orders, discounts, paymentRecords, pc, local, deleting>>]_vars

\* a preview accepted a code that was redeemed before, and the store still
\* holds the very discount the preview returned
C6_Witness ==
  /\ response.route = "validate" /\ response.status = 200
  /\ response.discount.usageCount >= 1
  /\ response.discount.discountId \in DOMAIN discounts
  /\ discounts[response.discount.discountId] = response.discount

\* C7: with maxUsage = N >= 1 and requests one after another, a redemption
\* below the cap passes validation and raises usageCount by exactly 1, the
\* count never passes N, and once it has reached N every preview and every
\* settlement with the code fails with UsageExceeded, whatever the amount.
Exhausted(d) ==
  d.status = "active" /\ \E m \in d.maxUsage : m >= 1 /\ d.usageCount >= m
BelowCap(d) ==
  d.status = "active" /\ \E m \in d.maxUsage : m >= 1 /\ d.usageCount < m
MeetsMinimum(d, amount) == \A m \in d.minAmount : amount >= m

C7_UsageCap ==
  [][/\ response'.route = "validate"
          => \A code \in RawCodes, amount \in Amounts :
               (Exhausted(getDiscountByCode(discounts, Trim(code)))
                  /\ ValidatePOST(code, amount))
               => response'.status = 400 /\ response'.error = "UsageExceeded"
     /\ \A p \in SeqProcs :
          LET d == getDiscountByCode(discounts, Trim(local[p].discountCode)) IN
          /\ (pc[p] = "validate" /\ pc'[p] # "validate" /\ Exhausted(d))
               => /\ response'.status = 400 /\ response'.error = "UsageExceeded"
                  /\ pc'[p] = "idle"
                  /\ UNCHANGED <<orders, discounts, paymentRecords>>
          /\ (pc[p] = "validate" /\ pc'[p] # "validate" /\ BelowCap(d)
                /\ MeetsMinimum(d, local[p].order.amount))
               => pc'[p] = "apply" /\ local'[p].discount = d
          /\ (pc[p] = "apply" /\ pc'[p] # "apply")
               => /\ pc'[p] = "gateway"
                  /\ discounts'[local[p].discount.discountId].usageCount =
                       discounts[local[p].discount.discountId].usageCount + 1
     /\ \A d \in DOMAIN discounts' :
          \A m \in discounts'[d].maxUsage : m >= 1 => discounts'[d].usageCount <= m]_vars

\* a preview is refused for the usage limit after a settlement has redeemed
\* the code of limit 1
C7_Witness ==
  /\ response.route = "validate" /\ response.error = "UsageExceeded"
  /\ \E i \in RecordIndexes :
       /\ paymentRecords[i].discountId \in DOMAIN discounts
       /\ discounts[paymentRecords[i].discountId].maxUsage = {1}
       /\ discounts[paymentRecords[i].discountId].usageCount = 1

\* C8: for an active discount that is not exhausted and has minAmount = M,
\* preview and settlement refuse every amount below M with BelowMinimum and
\* accept every amount of at least M, M itself included.
NotExhausted(d) ==
  /\ d # NoDiscount /\ d.status = "active"
  /\ d.maxUsage = {} \/ \E m \in d.maxUsage : d.usageCount < m

C8_MinimumGate ==
  [][/\ response'.route = "validate"
          => \A code \in RawCodes, amount \in Amounts :
               LET d == getDiscountByCode(discounts, Trim(code)) IN
               (NotExhausted(d) /\ d.minAmount # {} /\ ValidatePOST(code, amount))
               => \A M \in d.minAmount :
                    /\ amount < M => /\ response'.status = 400
                                     /\ response'.error = "BelowMinimum"
                    /\ amount >= M => response'.status = 200 /\ response'.discount = d
     /\ \A p \in SeqProcs :
          LET d == getDiscountByCode(discounts, Trim(local[p].discountCode))
              amount == local[p].order.amount
          IN (pc[p] = "validate" /\ pc'[p] # "validate" /\ NotExhausted(d))
             => \A M \in d.minAmount :
                  /\ amount < M => /\ response'.status = 400
                                   /\ response'.error = "BelowMinimum"
                                   /\ pc'[p] = "idle"
                  /\ amount >= M => pc'[p] = "apply" /\ local'[p].discount = d]_vars

\* a preview accepted an amount equal to the minimum of the discount
C8_Witness ==
  /\ response.route = "validate" /\ response.status = 200
  /\ response.discount.minAmount = {response.originalAmount}

\* C9: a settlement with a valid code that runs alone and is accepted by the
\* gateway leaves the order paid with the given method and balance =
\* finalAmount = amount - min(balance, amount), the usageCount one above the
\* value validation saw, and exactly one new record, made by the last step.
C9_SettlementEffect ==
  [][\A p \in SeqProcs :
       /\ (pc[p] = "createRecord" /\ pc'[p] = "idle" /\ local[p].discount # NoDiscount)
            => LET o == local[p].orderId
                   d == local[p].discount
                   amount == local[p].order.amount
                   discountAmount == IF d.balance <= amount THEN d.balance ELSE amount
               IN /\ orders'[o].status = "paid"
                  /\ orders'[o].paymentMethod = local[p].paymentMethod
                  /\ orders'[o].amount = amount
                  /\ orders'[o].balance = amount - discountAmount
                  /\ response'.route = "payment" /\ response'.status = 200
                  /\ response'.order = orders'[o]
                  /\ response'.discountAmount = discountAmount
                  /\ response'.finalAmount = amount - discountAmount
                  /\ discounts'[d.discountId].usageCount = d.usageCount + 1
                  /\ paymentRecords' = Append(paymentRecords, response'.paymentRecord)
                  /\ response'.paymentRecord.orderId = o
                  /\ response'.paymentRecord.paidAmount = amount - discountAmount
       /\ (pc[p] \notin {"idle", "createRecord"}) => paymentRecords' = paymentRecords]_vars

\* amount 2, discount balance 1: 1 discounted, 1 paid, order balance 1, one use
C9_Witness ==
  /\ response.route = "payment" /\ response.status = 200
  /\ response.originalAmount = 2 /\ response.discount.balance = 1
  /\ response.discountAmount = 1 /\ response.finalAmount = 1
  /\ orders[response.order.orderId].status = "paid"
  /\ orders[response.order.orderId].balance = 1
  /\ discounts[response.discount.discountId].usageCount = 1

\* C10: a settlement without a discount code (absent, empty or blank) goes
\* straight to the gateway with finalAmount = order.amount and discountAmount
\* = 0, changes no usageCount, and its record has empty discountId and
\* discountCode.
C10_NoDiscountCode ==
  [][\A p \in SeqProcs :
       /\ \A r \in SeqPayments :
            (pc[p] = "idle" /\ pc'[p] # "idle" /\ Trim(r.discountCode) = << >>
               /\ PaymentPOST(p, r.orderId, r.discountCode, r.paymentMethod, r.userId))
            => /\ pc'[p] = "gateway"
               /\ local'[p].order = orders[r.orderId]
               /\ local'[p].finalAmount = orders[r.orderId].amount
               /\ local'[p].discountAmount = 0
               /\ local'[p].discount = NoDiscount
       /\ (pc[p] # "idle" /\ Trim(local[p].discountCode) = << >>)
            => /\ discounts' = discounts
               /\ pc'[p] # "validate" /\ pc'[p] # "apply"
               /\ (pc'[p] = "idle" /\ response'.status = 200)
                    => /\ response'.finalAmount = local[p].order.amount
                       /\ response'.discountAmount = 0
                       /\ response'.paymentRecord.paidAmount = local[p].order.amount
                       /\ response'.paymentRecord.discountAmount = 0
                       /\ response'.paymentRecord.discountId = << >>
                       /\ response'.paymentRecord.discountCode = << >>
                       /\ paymentRecords' = Append(paymentRecords, response'.paymentRecord)]_vars

\* a settlement without a code succeeded although a discount exists
C10_Witness ==
  /\ response.route = "payment" /\ response.status = 200
  /\ response.paymentRecord.discountId = << >>
  /\ response.paymentRecord.discountCode = << >>
  /\ response.finalAmount = response.originalAmount /\ response.discountAmount = 0
  /\ DOMAIN discounts # {}

\* C11: the preconditions of a settlement are checked in a fixed order and
\* the first failure answers: no such order gives 404; an order that is not
\* pending gives 400 "Order is not pending" also for a user who is not the
\* owner; a pending order of another user gives 403; the request goes on to
\* the discount phase exactly when the order exists, is pending and is the
\* user's.
WellFormed(r) == r.orderId # << >> /\ r.paymentMethod # "" /\ r.userId # ""

C11_PreconditionOrder ==
  [][\A p \in SeqProcs :
       StartsSettlement(p)
       => \A r \in SeqPayments :
            (WellFormed(r)
               /\ PaymentPOST(p, r.orderId, r.discountCode, r.paymentMethod, r.userId))
            => IF r.orderId \notin DOMAIN orders
                 THEN /\ response'.status = 404 /\ response'.error = "Order not found"
                      /\ pc'[p] = "idle"
               ELSE IF orders[r.orderId].status # "pending"
                 THEN /\ response'.status = 400
                      /\ response'.error = "Order is not pending"
                      /\ pc'[p] = "idle"
               ELSE IF orders[r.orderId].userId # r.userId
                 THEN /\ response'.status = 403 /\ response'.error = "Unauthorized"
                      /\ pc'[p] = "idle"
               ELSE /\ response' = NoResponse
                    /\ pc'[p] = IF Trim(r.discountCode) # << >> THEN "validate"
                                ELSE "gateway"
                    /\ local'[p].order = orders[r.orderId]]_vars

\* a request for a pending order was refused as not the owner's
C11_Witness ==
  /\ response.route = "payment" /\ response.status = 403
  /\ \E o \in DOMAIN orders : orders[o].status = "pending"

\* C12: when the validator rejects the non-blank code of a settlement (no
\* such code, not active, usage limit reached, below the minimum), the
\* settlement ends there with the validator's reason: the order is still
\* pending and unchanged, no usageCount has moved, the gateway is not asked
\* and no record is written.
Rejected(d, amount) ==
  \/ d = NoDiscount
  \/ d.status # "active"
  \/ \E m \in d.maxUsage : m >= 1 /\ d.usageCount >= m
  \/ \E m \in d.minAmount : amount < m

RejectionReasons == {"NotFound", "Inactive", "UsageExceeded", "BelowMinimum"}

C12_RejectedCodeAborts ==
  [][\A p \in SeqProcs :
       LET d == getDiscountByCode(discounts, Trim(local[p].discountCode)) IN
       /\ (pc[p] = "validate" /\ pc'[p] # "validate"
             /\ Rejected(d, local[p].order.amount))
            => /\ pc'[p] = "idle"
               /\ response'.route = "payment" /\ response'.status = 400
               /\ response'.error \in RejectionReasons
               /\ response'.error =
                    validateDiscount(discounts, Trim(local[p].discountCode),
                                     local[p].order.amount).message
               /\ UNCHANGED <<orders, discounts, paymentRecords>>
               /\ orders'[local[p].orderId] = local[p].order
               /\ orders'[local[p].orderId].status = "pending"
       /\ (response'.route = "payment" /\ response'.error \in RejectionReasons)
            => pc[p] = "validate" /\ Rejected(d, local[p].order.amount)]_vars

\* a settlement was refused for the minimum amount: the order is pending, the
\* discount unused and no record exists
C12_Witness ==
  /\ response.route = "payment" /\ response.error = "BelowMinimum"
  /\ paymentRecords = << >>
  /\ \E o \in DOMAIN orders : orders[o].status = "pending"
  /\ \E d \in DOMAIN discounts : discounts[d].usageCount = 0 /\ discounts[d].minAmount # {}

\* C13: once an order is paid or cancelled, no step changes its status or any
\* other of its fields.
C13_TerminalStatus ==
  [][\A o \in DOMAIN orders :
       orders[o].status \in {"paid", "cancelled"} => orders'[o] = orders[o]]_vars

\* C14: payment records are append-only: a step never changes or removes a
\* record that exists, a settlement that answers success has added exactly
\* one record (the one it returns), and no other step adds a record.
C14_AppendOnlyRecords ==
  [][/\ Len(paymentRecords') >= Len(paymentRecords)
     /\ \A i \in RecordIndexes : paymentRecords'[i] = paymentRecords[i]
     /\ (response'.route = "payment" /\ response'.status = 200)
          => paymentRecords' = Append(paymentRecords, response'.paymentRecord)
     /\ ~(response'.route = "payment" /\ response'.status = 200)
          => paymentRecords' = paymentRecords]_vars

\* two settlements of the same order have each left their own record
C14_Witness ==
  /\ response.route = "payment" /\ response.status = 200
  /\ Len(paymentRecords) = 2
  /\ paymentRecords[1].orderId = paymentRecords[2].orderId
  /\ paymentRecords[2] = response.paymentRecord

\* C15: validateDiscount(code, orderAmount) is valid exactly when a discount
\* with that code exists, is active, has maxUsage unset or usageCount below
\* it, and has minAmount unset or at most orderAmount, whatever values
\* maxUsage and minAmount hold, 0 included; otherwise its reason is the first
\* that fails of NotFound, Inactive, UsageExceeded, BelowMinimum.
FirstFailure(d, orderAmount) ==
  IF d = NoDiscount THEN "NotFound"
  ELSE IF d.status # "active" THEN "Inactive"
  ELSE IF \E m \in d.maxUsage : d.usageCount >= m THEN "UsageExceeded"
  ELSE IF \E m \in d.minAmount : orderAmount < m THEN "BelowMinimum"
  ELSE ""

C15_ValidatorExact ==
  \A code \in {Trim(c) : c \in RawCodes}, orderAmount \in Amounts :
    LET d == getDiscountByCode(discounts, code)
        validation == validateDiscount(discounts, code, orderAmount)
    IN /\ validation.valid <=> FirstFailure(d, orderAmount) = ""
       /\ validation.valid => validation.discount = d
       /\ ~validation.valid => validation.message = FirstFailure(d, orderAmount)

\* C16: no two discounts have the same code; a create request for a code that
\* exists, as submitted or once trimmed, also when another create request got
\* there first, answers 400 "Discount code already exists" and leaves the
\* discounts as they are; a create that succeeds adds one discount with the
\* trimmed code, status active and usageCount 0.
UniqueCodes(discs) ==
  \A d1, d2 \in DOMAIN discs : discs[d1].code = discs[d2].code => d1 = d2

Creates(p) == pc[p] = "insertDiscount" /\ pc'[p] = "idle"

C16_UniqueDiscountCodes ==
  [][/\ UniqueCodes(discounts')
     /\ \A p \in Procs :
          /\ \A code \in DupCodes, balance \in DupBalances, d \in DupDiscounts :
               (pc[p] = "idle" /\ code # << >> /\ balance >= 0
                  /\ (\E x \in DOMAIN discounts : discounts[x].code = code)
                  /\ CreateDiscountCheck(p, code, balance, d.isFullDiscount,
                                         d.maxUsage, d.minAmount))
               => /\ response'.status = 400
                  /\ response'.error = "Discount code already exists"
                  /\ pc'[p] = "idle" /\ discounts' = discounts
          /\ (Creates(p)
                /\ \E x \in DOMAIN discounts : discounts[x].code = local[p].discount.code)
               => /\ response'.status = 400
                  /\ response'.error = "Discount code already exists"
                  /\ discounts' = discounts
          /\ (Creates(p)
                /\ ~\E x \in DOMAIN discounts : discounts[x].code = local[p].discount.code)
               => /\ response'.status = 200
                  /\ \E x \in DOMAIN discounts' \ DOMAIN discounts :
                       /\ discounts' = discounts @@ (x :> response'.discount)
                       /\ discounts'[x].code = local[p].discount.code
                       /\ discounts'[x].status = "active"
                       /\ discounts'[x].usageCount = 0]_vars

\* a create request was refused as a duplicate while another request, already
\* past the lookup, is about to insert a code that exists
C16_Witness ==
  /\ response.route = "discounts" /\ response.error = "Discount code already exists"
  /\ \E p \in Procs, d \in DOMAIN discounts :
       pc[p] = "insertDiscount" /\ local[p].discount.code = discounts[d].code

\* C17: every order is created pending with balance = amount and amount > 0,
\* and a create request with a missing or non-positive amount or a missing
\* userId is refused with a 400 and creates no order.
C17_OrderCreation ==
  [][/\ \A o \in DOMAIN orders' \ DOMAIN orders :
          /\ orders'[o].status = "pending"
          /\ orders'[o].balance = orders'[o].amount
          /\ orders'[o].amount > 0
     /\ response'.route = "orders"
          => \A amount \in DupOrderAmounts, userId \in OrderUsers \cup {""} :
               ((amount <= 0 \/ userId = "") /\ CreateOrder(amount, userId))
               => response'.status = 400 /\ orders' = orders]_vars

\* C18: a settlement request that lacks orderId, paymentMethod or userId, or
\* names no existing order, or comes from a user who does not own the order,
\* is answered with its error at once and changes nothing: orders, discounts
\* (usageCount included) and payment records stay as they are.
C18_EarlyErrorsChangeNothing ==
  [][\A p \in SeqProcs :
       StartsSettlement(p)
       => \A r \in SeqPayments :
            (/\ \/ ~WellFormed(r)
                \/ r.orderId \notin DOMAIN orders
                \/ orders[r.orderId].userId # r.userId
             /\ PaymentPOST(p, r.orderId, r.discountCode, r.paymentMethod, r.userId))
            => /\ pc'[p] = "idle"
               /\ response'.route = "payment"
               /\ response'.status \in {400, 403, 404}
               /\ response'.status = 400 <=> (~WellFormed(r)
                                               \/ (r.orderId \in DOMAIN orders
                                                   /\ orders[r.orderId].status # "pending"))
               /\ UNCHANGED <<orders, discounts, paymentRecords>>]_vars

\* a request for an order that does not exist was refused while an order and
\* an unused discount exist
C18_Witness ==
  /\ response.route = "payment" /\ response.status = 404
  /\ DOMAIN orders # {}
  /\ \E d \in DOMAIN discounts : discounts[d].usageCount = 0

C20_DeclineLeavesOrderPending ==
  [][\A p \in SeqProcs :
       /\ (pc[p] = "gateway" /\ pc'[p] = "idle")
            => /\ response'.route = "payment" /\ response'.error = "Payment failed"
               /\ orders' = orders
               /\ orders'[local[p].orderId] = local[p].order
               /\ orders'[local[p].orderId].status = "pending"
               /\ paymentRecords' = paymentRecords
       /\ pc'[p] = "updateOrder" => pc[p] \in {"gateway", "updateOrder"}
       /\ pc'[p] = "createRecord" => pc[p] \in {"updateOrder", "createRecord"}]_vars

\* an order settled at the second attempt: its discount was redeemed twice
\* and a single record names it
C20_Witness ==
  /\ response.route = "payment" /\ response.status = 200
  /\ response.order.status = "paid"
  /\ response.discount # NoDiscount
  /\ discounts[response.discount.discountId].usageCount = 2
  /\ Len(paymentRecords) = 1
  /\ paymentRecords[1].orderId = response.order.orderId

\* C21: the commit phase is not all-or-nothing: when the insert of the
\* payment record fails after the order update, the request answers an error
\* and takes nothing back: the order stays paid with balance = finalAmount
\* and the usage increment stays, so a paid order without a record exists.
C21_NoAtomicCommit ==
  [][\A p \in SeqProcs :
       (pc[p] = "createRecord" /\ pc'[p] = "idle" /\ response'.status # 200)
       => /\ response'.route = "payment" /\ response'.status = 500
          /\ UNCHANGED <<orders, discounts, paymentRecords>>
          /\ orders'[local[p].orderId].status = "paid"
          /\ orders'[local[p].orderId].paymentMethod = local[p].paymentMethod
          /\ orders'[local[p].orderId].balance = local[p].finalAmount
          /\ local[p].discount # NoDiscount
               => discounts'[local[p].discount.discountId].usageCount
                    = local[p].discount.usageCount + 1]_vars

\* the request has answered 500 and its order is paid, its discount used,
\* and no record names the order
C21_Witness ==
  /\ InFlight = {}
  /\ response.route = "payment" /\ response.status = 500
  /\ \E o \in DOMAIN orders :
       /\ orders[o].status = "paid"
       /\ orders[o].balance < orders[o].amount
       /\ \A i \in RecordIndexes : paymentRecords[i].orderId # o
  /\ \E d \in DOMAIN discounts : discounts[d].usageCount = 1

\* the successor steps of each position of a settlement
StepOrder ==
  { <<"idle", "validate">>, <<"idle", "gateway">>,
    <<"validate", "apply">>, <<"validate", "idle">>,
    <<"apply", "gateway">>,
    <<"gateway", "updateOrder">>, <<"gateway", "idle">>,
    <<"updateOrder", "createRecord">>,
    <<"createRecord", "idle">> }

\* C22: within one settlement the steps are strictly ordered: order lookup
\* and checks, discount validation, usage increment, gateway call, order
\* update, record insert; the lookup, the checks, the validation and the
\* gateway call write no store, the increment writes only the discount, the
\* order update only the order, the insert only the records.
C22_StepsInOrder ==
  [][\A p \in SeqProcs :
       /\ pc'[p] # pc[p] => <<pc[p], pc'[p]>> \in StepOrder
       /\ (StartsSettlement(p) \/ pc[p] \in {"validate", "gateway"})
            => UNCHANGED <<orders, discounts, paymentRecords>>
       /\ pc[p] = "apply"
            => /\ discounts' # discounts
               /\ UNCHANGED <<orders, paymentRecords>>
               /\ local[p].order.status = "pending"
               /\ local[p].discount # NoDiscount
       /\ pc[p] = "updateOrder"
            => /\ orders' # orders
               /\ UNCHANGED <<discounts, paymentRecords>>
               /\ local[p].discount # NoDiscount
                    => discounts[local[p].discount.discountId].usageCount
                         = local[p].discount.usageCount + 1
       /\ (pc[p] = "createRecord" /\ response'.status = 200)
            => /\ Len(paymentRecords') = Len(paymentRecords) + 1
               /\ UNCHANGED <<orders, discounts>>
               /\ orders[local[p].orderId].status = "paid"]_vars

\* a discounted settlement stands before its last step: usage counted, order
\* paid, no record yet
C22_Witness ==
  \E p \in SeqProcs :
    /\ pc[p] = "createRecord"
    /\ local[p].discount # NoDiscount
    /\ discounts[local[p].discount.discountId].usageCount
         = local[p].discount.usageCount + 1
    /\ orders[local[p].orderId].status = "paid"
    /\ \A i \in RecordIndexes : paymentRecords[i].orderId # local[p].orderId

\* C23: DELETE /orders/{id} goes on to its write only when the order exists
\* and the status it read is pending; the write sets status = cancelled and
\* touches no other field, order, discount or record; on a missing or
\* non-pending order the request answers an error and changes nothing.
C23_CancelOnlyPending ==
  [][/\ \A o \in deleting' \ deleting :
          /\ getOrder(orders, o) # NoOrder
          /\ orders[o].status = "pending"
          /\ UNCHANGED <<orders, discounts, paymentRecords>>
     /\ \A o \in deleting \ deleting' :
          /\ orders' = [orders EXCEPT ![o].status = "cancelled",
                                      ![o].updatedAt = {"now"}]
          /\ UNCHANGED <<discounts, paymentRecords, pc, local>>
          /\ response'.route = "delete" /\ response'.status = 200
     /\ (response'.route = "delete" /\ response'.status = 200)
          => deleting' # deleting
     /\ (response'.route = "delete" /\ response'.status # 200)
          => /\ UNCHANGED <<orders, discounts, paymentRecords, deleting, pc, local>>
             /\ \E o \in ConcOrderIds :
                  /\ o \notin deleting
                  /\ \/ getOrder(orders, o) = NoOrder /\ response'.status = 404
                     \/ /\ getOrder(orders, o) # NoOrder
                        /\ orders[o].status # "pending"
                        /\ response'.status = 400
     /\ \A o \in ConcOrderIds :
          (DeleteCheck(o) /\ (getOrder(orders, o) = NoOrder \/ orders[o].status # "pending"))
            => response'.route = "delete" /\ response'.status # 200]_vars

\* a cancel has succeeded next to a used discount, which it left alone
C23_Witness ==
  /\ response.route = "delete" /\ response.status = 200
  /\ \E o \in DOMAIN orders : orders[o].status = "cancelled"
  /\ \E d \in DOMAIN discounts : discounts[d].usageCount > 0

C25_LazyInitFlag ==
  /\ [][/\ dbInitialized' # dbInitialized
             => /\ dbInitialized'
                /\ \E p \in Procs :
                     /\ boot[p].pc = "setFlag" /\ boot[p].outcome = "returned"
                     /\ boot'[p].pc = "ready"
        /\ \A p \in Procs :
             /\ (boot[p].pc \in {"connect", "create"} /\ boot'[p].pc = "idle")
                  => /\ response'.status = 500
                     /\ dbInitialized' = dbInitialized
             /\ (boot[p].pc = "idle" /\ boot'[p].pc # "idle")
                  => boot'[p].pc = IF dbInitialized THEN "ready" ELSE "connect"]_vars
  /\ [](dbInitialized => schema = AllObjects)
  /\ [](\A p \in Procs : boot[p].outcome = "returned" => schema = AllObjects)

\* two overlapping requests have both run initializeDatabase to the end, one
\* of them after a failed attempt
C25_Witness ==
  /\ dbInitialized
  /\ \A p \in Procs : boot[p].outcome = "returned"
  /\ \E p \in Procs : boot[p].calls > 1
  /\ schema = AllObjects

RECURSIVE Pow(_, _)
Pow(b, n) == IF n = 0 THEN 1 ELSE b * Pow(b, n - 1)

\* C30: retryOperation always terminates: it invokes the operation at most
\* maxRetries times, returns at the first success without another invocation,
\* rethrows the error of the last attempt after maxRetries failures in a row,
\* and has waited initialDelay * 2^(k-1) before the k-th retry.
C30_RetryTerminates ==
  /\ [](\A p \in Procs :
          /\ boot[p].calls <= MaxRetries
          /\ \A k \in 1..Len(boot[p].waited) :
               boot[p].waited[k] = InitialDelay * Pow(2, k - 1)
          /\ boot[p].pc = "create" => Len(boot[p].waited) = boot[p].calls
          /\ boot[p].pc = "wait" => Len(boot[p].waited) = boot[p].calls - 1
          /\ boot[p].outcome = "returned"
               => boot[p].calls >= 1 /\ Len(boot[p].waited) = boot[p].calls - 1
          /\ boot[p].outcome = "threw"
               => /\ boot[p].calls = MaxRetries
                  /\ boot[p].error = MaxRetries
                  /\ Len(boot[p].waited) = MaxRetries - 1)
  /\ [][\A p \in Procs :
          /\ boot'[p].calls # boot[p].calls
               => \/ boot[p].pc = "create" /\ boot'[p].calls = boot[p].calls + 1
                  \/ boot[p].pc = "idle" /\ boot'[p].calls = 0
          /\ (boot[p].pc = "create" /\ boot'[p].pc # "create")
               => \/ boot'[p].outcome = "returned" /\ boot'[p].pc = "setFlag"
                  \/ boot'[p].outcome = "threw" /\ boot'[p].pc = "idle"
                       /\ boot'[p].calls = MaxRetries
                  \/ boot'[p].outcome = "" /\ boot'[p].pc = "wait"
                       /\ boot'[p].calls < MaxRetries]_vars
  /\ \A p \in Procs :
       (boot[p].pc \in {"create", "wait"}) ~> (boot[p].outcome \in {"returned", "threw"})

\* the loop has given up after its last attempt, having waited twice
C30_Witness ==
  \E p \in Procs :
    /\ boot[p].outcome = "threw"
    /\ boot[p].calls = 3
    /\ boot[p].waited = <<2000, 4000>>

\* C26: for every discount with maxUsage set, usageCount <= maxUsage in every
\* reachable state, whatever the interleaving of settlements.
C26_UsageWithinCap ==
  \A d \in DOMAIN discounts :
    \A m \in discounts[d].maxUsage : discounts[d].usageCount <= m

\* C27: whenever no settlement is in flight, every order that settlement has
\* set to paid has balance equal to the paidAmount of every record that names
\* it, and each such record has the order's amount and userId.
C27_PaidOrderMatchesRecords ==
  InFlight = {}
  => \A i \in RecordIndexes :
       LET r == paymentRecords[i]
           order == orders[r.orderId]
       IN order.status = "paid"
          => /\ order.balance = r.paidAmount
             /\ r.amount = order.amount
             /\ r.userId = order.userId

\* C28: no order that has a payment record is ever cancelled, whatever the
\* interleaving of a settlement and a cancel of the same pending order.
C28_NoCancelledOrderWithRecord ==
  \A i \in RecordIndexes : orders[paymentRecords[i].orderId].status # "cancelled"

\* C29: GET /stats returns a consistent snapshot: totalPayments is the number
\* of payment records and totalRevenue the sum of paidAmount over exactly
\* those records (0 when there are none), also when a settlement inserts a
\* record while the four queries run. Records are only appended, so the
\* records of a snapshot are the first k of the present ones.
C29_StatsSnapshot ==
  (response.route = "stats" /\ response.status = 200)
  => \E k \in 0..Len(paymentRecords) :
       /\ response.data.totalPayments = k
       /\ response.data.totalRevenue = SumPaid(SubSeq(paymentRecords, 1, k))
====
